---- MODULE Spec2Model ----
(***************************************************************************)
(* Model of the Kine flipbook asset pipeline scripts:                      *)
(*   scripts/extract_frames.py      label derivation, frame extraction,    *)
(*                                  manifest generation                    *)
(*   scripts/upload_to_supabase.py  publication of frames and table rows   *)
(* Nine specifications share the module:                                   *)
(*   SpecGloss    get_gloss_from_filename applied to bounded filenames     *)
(*   SpecExtract  successive extraction runs over one output directory     *)
(*   SpecPublish  successive publication runs against one service          *)
(*   SpecRace     two overlapping publication runs against one service     *)
(*   SpecMode     one publication run over every command line              *)
(*   SpecBatch    one directory-scan extraction or one publication run     *)
(*   SpecSeries   successive extraction runs that all succeed              *)
(*   SpecFrames   extract_frames applied to one source file                *)
(*   SpecUpload   upload_gloss_frames applied twice to one label's frames  *)
(***************************************************************************)
EXTENDS Integers, Sequences, FiniteSets, TLC

VARIABLES
    gFilename, gLabel, gPc,                       \* label derivation
    dirFiles, manifest,                            \* output directory tree
    xPc, xMode, xVideos, xResults, xUseFfmpeg,    \* extraction run
    xExit, xWrote, xLast, xDerived,
    bucket, objects, table,                        \* storage and table service
    pPc, pMode, pArgs, pEnsure, pPending,          \* publication runs
    pResults, pLog, pCalls, pExit,
    uPc, uSrc, uOuts, uCounts,                     \* repeated upload of one label
    fPc, fIn, fOut                                 \* one call of extract_frames

glossVars == <<gFilename, gLabel, gPc>>
extractVars == <<dirFiles, manifest, xPc, xMode, xVideos, xResults, xUseFfmpeg,
                 xExit, xWrote, xLast, xDerived>>
remoteVars == <<bucket, objects, table>>
pubVars == <<bucket, objects, table, pPc, pMode, pArgs, pEnsure, pPending, pResults,
             pLog, pCalls, pExit>>
uploadVars == <<uPc, uSrc, uOuts, uCounts>>
frameVars == <<fPc, fIn, fOut>>
vars == <<gFilename, gLabel, gPc, dirFiles, manifest, xPc, xMode, xVideos, xResults,
          xUseFfmpeg, xExit, xWrote, xLast, xDerived, bucket, objects, table, pPc,
          pMode, pArgs, pEnsure, pPending, pResults, pLog, pCalls, pExit, uPc, uSrc,
          uOuts, uCounts, fPc, fIn, fOut>>

(***************************************************************************)
(* Bounds                                                                  *)
(***************************************************************************)
MaxNameLen == 4        \* longest enumerated filename (characters)
MaxSrcFrames == 2      \* most frames a source video holds
MaxVideos == 2         \* most videos found by one directory scan

(***************************************************************************)
(* Program constants                                                       *)
(***************************************************************************)
TARGET_FPS == 24
FRAME_FORMAT == "{:04d}.webp"

(***************************************************************************)
(* Strings are sequences of one-character strings where the code looks at  *)
(* characters; Str turns them into a TLA+ string.                          *)
(***************************************************************************)
RECURSIVE Str(_)
Str(s) == IF s = <<>> THEN "" ELSE Head(s) \o Str(Tail(s))

LowerLetters == <<"a","b","c","d","e","f","g","h","i","j","k","l","m",
                  "n","o","p","q","r","s","t","u","v","w","x","y","z">>
UpperLetters == <<"A","B","C","D","E","F","G","H","I","J","K","L","M",
                  "N","O","P","Q","R","S","T","U","V","W","X","Y","Z">>
Digits == {"0","1","2","3","4","5","6","7","8","9"}

\* str.upper() on one character
UpperChar(c) ==
    IF \E i \in 1..26 : LowerLetters[i] = c
    THEN UpperLetters[CHOOSE i \in 1..26 : LowerLetters[i] = c]
    ELSE c

\* str.upper()
Upper(s) == [i \in 1..Len(s) |-> UpperChar(s[i])]

\* str.rfind(c) as a 1-based position, 0 when absent
RFind(s, c) ==
    IF \E i \in 1..Len(s) : s[i] = c
    THEN CHOOSE i \in 1..Len(s) : s[i] = c /\ \A j \in (i+1)..Len(s) : s[j] # c
    ELSE 0

\* pathlib's PurePath.stem: the name up to its last dot, unless that dot is
\* the first or the last character
Stem(name) ==
    LET p == RFind(name, ".")
    IN IF 1 < p /\ p < Len(name) THEN SubSeq(name, 1, p - 1) ELSE name

\* str.split(sep): always at least one segment
RECURSIVE Split(_, _)
Split(s, sep) ==
    IF \A i \in 1..Len(s) : s[i] # sep
    THEN <<s>>
    ELSE LET p == CHOOSE i \in 1..Len(s) : s[i] = sep /\ \A j \in 1..(i-1) : s[j] # sep
         IN <<SubSeq(s, 1, p - 1)>> \o Split(SubSeq(s, p + 1, Len(s)), sep)

\* str.isdigit(): non-empty and every character a digit
IsDigit(p) == Len(p) > 0 /\ \A i \in 1..Len(p) : p[i] \in Digits

\* a derivation that removes a numeric suffix only
RECURSIVE NonNumericSuffixOnly(_)
NonNumericSuffixOnly(parts) ==
    IF parts = <<>> THEN <<>>
    ELSE IF Len(parts) > 1
         THEN <<Head(parts)>> \o NonNumericSuffixOnly(Tail(parts))
         ELSE IF IsDigit(Head(parts)) THEN <<>> ELSE parts

\* the list comprehension [p for p in parts if not p.isdigit()]
RECURSIVE NonNumeric(_)
NonNumeric(parts) ==
    IF parts = <<>> THEN <<>>
    ELSE IF IsDigit(Head(parts)) THEN NonNumeric(Tail(parts))
         ELSE <<Head(parts)>> \o NonNumeric(Tail(parts))

\* sep.join(parts)
RECURSIVE Join(_, _)
Join(parts, sep) ==
    IF parts = <<>> THEN <<>>
    ELSE IF Len(parts) = 1 THEN Head(parts)
         ELSE Head(parts) \o <<sep>> \o Join(Tail(parts), sep)

get_gloss_from_filename(filename) ==
    Upper(Join(NonNumeric(Split(Stem(filename), "_")), "_"))

(***************************************************************************)
(* Label derivation applied to bounded filenames                           *)
(***************************************************************************)
GlossChars == {"a", "B", "7", "_", "."}

COFFEE_001_mp4 == <<"C","O","F","F","E","E","_","0","0","1",".","m","p","4">>
THANK_YOU_2_mp4 == <<"T","H","A","N","K","_","Y","O","U","_","2",".","m","p","4">>
One_mp4 == <<"1",".","m","p","4">>

Filenames ==
    UNION {[1..n -> GlossChars] : n \in 0..MaxNameLen}
      \cup {COFFEE_001_mp4, THANK_YOU_2_mp4, One_mp4}

(***************************************************************************)
(* Frame files                                                             *)
(***************************************************************************)
DigitStr(d) == <<"0","1","2","3","4","5","6","7","8","9">>[d + 1]

RECURSIVE Decimal(_)
Decimal(n) == IF n < 10 THEN DigitStr(n) ELSE Decimal(n \div 10) \o DigitStr(n % 10)

\* "{:04d}".format(n): decimal, zero-padded to at least four digits
Format04(n) ==
    IF n < 10 THEN "000" \o Decimal(n)
    ELSE IF n < 100 THEN "00" \o Decimal(n)
    ELSE IF n < 1000 THEN "0" \o Decimal(n)
    ELSE Decimal(n)

\* FRAME_FORMAT.format(n)
FormatFrame(n) == Format04(n) \o ".webp"

\* the frame names the bounded sources can produce, formatted once
FrameNameTable == [n \in 1..(MaxSrcFrames + 1) |-> FormatFrame(n)]

FrameName(n) == FrameNameTable[n]

\* What the transcoder writes for an output path: the image-sequence muxer
\* expands a printf index directive into k numbered files; any other path is
\* one output file of that literal name.
TranscoderWrites(pattern, k) ==
    IF pattern = "%04d.webp" THEN {FrameName(i) : i \in 1..k} ELSE {pattern}

\* What one video gives each backend: ffmpeg is absent, fails (leaving its
\* output file behind or not) or succeeds; OpenCV opens the file or not and
\* reads `total` frames recorded at `vfps` (a rate above the target is listed
\* only where decimation can drop a frame).
Outcomes ==
    {o \in [ff : {"notfound", "error", "partial", "ok"}, opened : BOOLEAN,
            total : 0..MaxSrcFrames, vfps : {24, 48}] :
        /\ o.ff \in {"partial", "ok"} => o.total > 0
        /\ o.vfps > TARGET_FPS => o.opened /\ o.total > 1}

\* os.makedirs(output_dir, exist_ok=True) followed by a listing of *.webp
FilesOf(fs, dir) == IF dir \in DOMAIN fs THEN fs[dir] ELSE {}

extract_with_ffmpeg(files, o) ==
    LET output_pattern == FRAME_FORMAT
    IN CASE o.ff = "notfound" -> [files |-> files, count |-> 0, written |-> {}]
         [] o.ff = "error" -> [files |-> files, count |-> 0, written |-> {}]
         [] o.ff = "partial" ->
              [files |-> files \cup TranscoderWrites(output_pattern, o.total), count |-> 0,
               written |-> TranscoderWrites(output_pattern, o.total)]
         [] o.ff = "ok" ->
              LET written == files \cup TranscoderWrites(output_pattern, o.total)
              IN [files |-> written, count |-> Cardinality(written),
                  written |-> TranscoderWrites(output_pattern, o.total)]

extract_with_opencv(files, o) ==
    IF ~o.opened THEN [files |-> files, count |-> 0, written |-> {}]
    ELSE LET frame_interval == IF o.vfps > TARGET_FPS THEN o.vfps \div TARGET_FPS ELSE 1
             saved_count ==
                 Cardinality({i \in 0..(o.total - 1) : i % frame_interval = 0})
         IN [files |-> files \cup {FrameName(n) : n \in 1..saved_count},
             count |-> saved_count,
             written |-> {FrameName(n) : n \in 1..saved_count}]

\* what a backend returned, with the backends called to get it; `written`
\* is the set of files the call created or overwrote
Called(r, calls) ==
    [files |-> r.files, count |-> r.count, written |-> r.written, calls |-> calls]

\* an extraction that never falls back
extract_frames_no_fallback(files, use_ffmpeg, o) ==
    IF use_ffmpeg
    THEN Called(extract_with_ffmpeg(files, o), <<"ffmpeg">>)
    ELSE Called(extract_with_opencv(files, o), <<"opencv">>)

extract_frames(files, use_ffmpeg, o) ==
    IF use_ffmpeg
    THEN LET first == extract_with_ffmpeg(files, o)
         IN IF first.count = 0
            THEN LET second == extract_with_opencv(first.files, o)
                 IN Called([second EXCEPT !.written = first.written \cup @],
                           <<"ffmpeg", "opencv">>)
            ELSE Called(first, <<"ffmpeg">>)
    ELSE Called(extract_with_opencv(files, o), <<"opencv">>)

\* the outcomes extract_frames can tell apart: a backend it never calls (the
\* transcoder without use_ffmpeg, the frame reader once the transcoder has
\* returned frames) is given one fixed answer
Observed(outcomes, use_ffmpeg) ==
    {o \in outcomes :
        IF use_ffmpeg THEN o.ff = "ok" => ~o.opened /\ o.vfps = TARGET_FPS
        ELSE o.ff = "notfound"}

\* the output tree after extract_frames ran on os.path.join(output, gloss):
\* the directory (and the output root above it) exists and holds `files`
WithDir(fs, dir, files) ==
    [d \in DOMAIN fs \cup {dir, ""} |->
        IF d = dir THEN files ELSE IF d \in DOMAIN fs THEN fs[d] ELSE {}]

(***************************************************************************)
(* Manifest                                                                *)
(***************************************************************************)
\* a manifest that records every label of the results, failed ones included
generate_manifest_unfiltered(results) ==
    [exists |-> TRUE,
     fps |-> TARGET_FPS,
     glosses |->
        [gloss \in DOMAIN results |->
            [frame_count |-> results[gloss],
             duration_ms |-> (results[gloss] * 1000) \div TARGET_FPS,
             storage_path |-> "avatars/" \o gloss]]]

generate_manifest(results) ==
    [exists |-> TRUE,
     fps |-> TARGET_FPS,
     glosses |->
        [gloss \in {g \in DOMAIN results : results[g] > 0} |->
            [frame_count |-> results[gloss],
             duration_ms |-> (results[gloss] * 1000) \div TARGET_FPS,
             storage_path |-> "avatars/" \o gloss]]]

NoManifest == [exists |-> FALSE, fps |-> TARGET_FPS, glosses |-> <<>>]

(***************************************************************************)
(* Extraction runs                                                         *)
(***************************************************************************)
HELLO_1_mp4 == <<"H","E","L","L","O","_","1",".","m","p","4">>
hello_2_MP4 == <<"h","e","l","l","o","_","2",".","M","P","4">>
Seven_mp4 == <<"7",".","m","p","4">>
hello_txt == <<"h","e","l","l","o",".","t","x","t">>

InputFiles == {HELLO_1_mp4, hello_2_MP4, Seven_mp4, hello_txt}

\* --gloss values; "" is the option left out
GlossArgs == {"", "HELLO"}

\* the label of each input file, derived once
GlossOf == [name \in InputFiles |-> Str(get_gloss_from_filename(name))]

\* pathlib's PurePath.suffix, lowercased by the caller
Suffix(name) ==
    LET p == RFind(name, ".")
    IN IF 1 < p /\ p < Len(name) THEN SubSeq(name, p, Len(name)) ELSE <<>>

video_extensions ==
    {<<".","m","p","4">>, <<".","m","o","v">>, <<".","a","v","i">>,
     <<".","w","e","b","m">>, <<".","m","k","v">>}

\* str.lower() on the characters a suffix is made of
Lower(s) ==
    [i \in 1..Len(s) |->
        IF \E k \in 1..26 : UpperLetters[k] = s[i]
        THEN LowerLetters[CHOOSE k \in 1..26 : UpperLetters[k] = s[i]]
        ELSE s[i]]

RECURSIVE SelectVideos(_)
SelectVideos(listing) ==
    IF listing = <<>> THEN <<>>
    ELSE IF Lower(Suffix(Head(listing))) \in video_extensions
         THEN <<Head(listing)>> \o SelectVideos(Tail(listing))
         ELSE SelectVideos(Tail(listing))

\* a directory listing: distinct files in the order iterdir yields them
Listings ==
    {l \in UNION {[1..n -> InputFiles] : n \in 0..MaxVideos} :
        \A i, j \in 1..Len(l) : i # j => l[i] # l[j]}

RECURSIVE SumValues(_)
SumValues(f) ==
    IF DOMAIN f = {} THEN 0
    ELSE LET k == CHOOSE k \in DOMAIN f : TRUE
         IN f[k] + SumValues([j \in DOMAIN f \ {k} |-> f[j]])

NoCall == [again |-> FALSE, count |-> 0, dir |-> "", written |-> {}]

GlossIdle == gFilename = <<>> /\ gLabel = <<>> /\ gPc = "off"

UploadIdle == uPc = "off" /\ uSrc = <<>> /\ uOuts = <<>> /\ uCounts = <<>>

NoFrames == [calls |-> <<>>, count |-> 0, files |-> {}, written |-> {}]

FramesIdle ==
    /\ fPc = "off"
    /\ fIn = [files |-> {}, use_ffmpeg |-> TRUE,
              o |-> [ff |-> "ok", opened |-> TRUE, total |-> 1, vfps |-> 24]]
    /\ fOut = NoFrames

\* publication processes: one in a plain run, two when runs overlap
AllRuns == {"run1", "run2"}

NoArgs == [files |-> {}, frames |-> TRUE, gloss |-> "", key |-> TRUE,
           listing |-> <<>>, manifest |-> "", url |-> TRUE]

PublishIdle ==
    /\ bucket = FALSE
    /\ objects = <<>>
    /\ table = <<>>
    /\ pPc = [r \in AllRuns |-> "idle"]
    /\ pMode = [r \in AllRuns |-> "none"]
    /\ pArgs = [r \in AllRuns |-> NoArgs]
    /\ pEnsure = [r \in AllRuns |-> "none"]
    /\ pPending = [r \in AllRuns |-> <<>>]
    /\ pResults = [r \in AllRuns |-> <<>>]
    /\ pLog = [r \in AllRuns |-> {}]
    /\ pCalls = [r \in AllRuns |-> {}]
    /\ pExit = [r \in AllRuns |-> -1]

\* no publication process exists
PublishOff ==
    /\ bucket = FALSE
    /\ objects = <<>>
    /\ table = <<>>
    /\ pPc = [r \in AllRuns |-> "off"]
    /\ pMode = [r \in AllRuns |-> "none"]
    /\ pArgs = [r \in AllRuns |-> NoArgs]
    /\ pEnsure = [r \in AllRuns |-> "none"]
    /\ pPending = [r \in AllRuns |-> <<>>]
    /\ pResults = [r \in AllRuns |-> <<>>]
    /\ pLog = [r \in AllRuns |-> {}]
    /\ pCalls = [r \in AllRuns |-> {}]
    /\ pExit = [r \in AllRuns |-> -1]

\* a `for` loop moves on to the item after the current one, whatever the
\* iteration did (process_directory line 193, process_manifest line 214,
\* main line 335)
LoopRestBreak(items) == <<>>

LoopRest(items) == Tail(items)

InitExtract ==
    /\ GlossIdle
    /\ UploadIdle
    /\ FramesIdle
    /\ PublishOff
    /\ dirFiles = <<>>
    /\ manifest = NoManifest
    /\ xPc = "idle"
    /\ xMode = "none"
    /\ xVideos = <<>>
    /\ xResults = <<>>
    /\ xUseFfmpeg = TRUE
    /\ xExit = -1
    /\ xWrote = FALSE
    /\ xLast = NoCall
    /\ xDerived = {}

\* main, lines 267-269: the input path does not exist
MainMissingInput ==
    /\ xPc = "idle"
    /\ xPc' = "done"
    /\ xMode' = "missing"
    /\ xExit' = 1
    /\ UNCHANGED <<xVideos, xResults, xWrote, xLast, xDerived, xUseFfmpeg, dirFiles,
                   manifest, glossVars, pubVars, uploadVars, frameVars>>

\* main, lines 271-292: the input path is one file
MainSingleFile(glossArgs, outcomes) ==
    /\ xPc = "idle"
    /\ \E name \in InputFiles, arg \in glossArgs, use_ffmpeg \in BOOLEAN :
       \E o \in Observed(outcomes, use_ffmpeg) :
        LET derived == GlossOf[name]
            gloss == IF arg # "" THEN arg ELSE derived
            r == extract_frames(FilesOf(dirFiles, gloss), use_ffmpeg, o)
        IN /\ dirFiles' = WithDir(dirFiles, gloss, r.files)
           /\ xLast' = [dir |-> gloss, count |-> r.count, written |-> r.written,
                        again |-> FALSE]
           /\ xDerived' = IF arg # "" THEN {} ELSE {derived}
           /\ xUseFfmpeg' = use_ffmpeg
           /\ xResults' = [g \in {gloss} |-> r.count]
           /\ IF r.count > 0
              THEN /\ manifest' = generate_manifest([g \in {gloss} |-> r.count])
                   /\ xWrote' = TRUE
                   /\ xExit' = 0
              ELSE /\ manifest' = manifest
                   /\ xWrote' = FALSE
                   /\ xExit' = 1
    /\ xPc' = "done"
    /\ xMode' = "file"
    /\ xVideos' = <<>>
    /\ UNCHANGED <<glossVars, pubVars, uploadVars, frameVars>>

\* main, lines 294-317, once process_directory has returned `results`
FinishDirectory(results) ==
    /\ xPc' = "done"
    /\ IF DOMAIN results # {}
       THEN /\ manifest' = generate_manifest(results)
            /\ xWrote' = TRUE
            /\ xExit' = 0
       ELSE /\ manifest' = manifest
            /\ xWrote' = FALSE
            /\ xExit' = 1

\* main, lines 294-304 and process_directory, lines 176-190: the input path is
\* a directory; its videos are selected by extension
MainDirectoryStart(listings) ==
    /\ xPc = "idle"
    /\ \E listing \in listings, use_ffmpeg \in BOOLEAN :
        LET videos == SelectVideos(listing)
        IN /\ xUseFfmpeg' = use_ffmpeg
           /\ xVideos' = videos
           /\ xMode' = "dir"
           /\ IF videos = <<>>
              THEN FinishDirectory(<<>>)
              ELSE /\ xPc' = "scan"
                   /\ xExit' = -1
                   /\ xWrote' = FALSE
                   /\ manifest' = manifest
    /\ UNCHANGED <<xResults, xLast, xDerived, dirFiles, glossVars, pubVars, uploadVars, frameVars>>

\* process_directory, lines 193-201: one iteration of the loop over videos
ProcessDirectoryStep(outcomes) ==
    /\ xPc = "scan"
    /\ xVideos # <<>>
    /\ \E o \in Observed(outcomes, xUseFfmpeg) :
        LET gloss == GlossOf[Head(xVideos)]
            r == extract_frames(FilesOf(dirFiles, gloss), xUseFfmpeg, o)
        IN /\ dirFiles' = WithDir(dirFiles, gloss, r.files)
           /\ xResults' = [g \in DOMAIN xResults \cup {gloss} |->
                              IF g = gloss THEN r.count ELSE xResults[g]]
           /\ xLast' = [dir |-> gloss, count |-> r.count, written |-> r.written,
                        again |-> gloss \in xDerived]
           /\ xDerived' = xDerived \cup {gloss}
    /\ xVideos' = LoopRest(xVideos)
    /\ UNCHANGED <<xPc, xMode, xUseFfmpeg, xExit, xWrote, manifest, glossVars, pubVars, uploadVars, frameVars>>

\* process_directory returns; main, lines 306-317
MainDirectoryFinish ==
    /\ xPc = "scan"
    /\ xVideos = <<>>
    /\ FinishDirectory(xResults)
    /\ UNCHANGED <<xMode, xVideos, xResults, xUseFfmpeg, xLast, xDerived, dirFiles,
                   glossVars, pubVars, uploadVars, frameVars>>

\* the process has exited: the run's memory is gone, the output tree stays
ProcessExit ==
    /\ xPc = "done"
    /\ xPc' = "idle"
    /\ xMode' = "none"
    /\ xVideos' = <<>>
    /\ xResults' = <<>>
    /\ xUseFfmpeg' = TRUE
    /\ xExit' = -1
    /\ xWrote' = FALSE
    /\ xLast' = NoCall
    /\ xDerived' = {}
    /\ UNCHANGED <<dirFiles, manifest, glossVars, pubVars, uploadVars, frameVars>>

NextExtract ==
    \/ ProcessExit
    \/ MainMissingInput
    \/ MainSingleFile(GlossArgs, Outcomes)
    \/ MainDirectoryStart(Listings)
    \/ ProcessDirectoryStep(Outcomes)
    \/ MainDirectoryFinish

SpecExtract == InitExtract /\ [][NextExtract]_vars

(***************************************************************************)
(* Successive extraction runs that all succeed, over two labels            *)
(***************************************************************************)
\* sources the frame reader opens and reads, on a machine without ffmpeg
ReadableOutcomes ==
    {o \in Outcomes : o.ff = "notfound" /\ o.opened /\ o.total > 0}

\* single-file runs name their label
SeriesGlossArgs == {"HELLO", "WATER"}

\* input directories whose videos all derive a non-empty label
SeriesListings ==
    {l \in Listings : \A i \in 1..Len(l) : l[i] \in {HELLO_1_mp4, hello_2_MP4, hello_txt}}

NextSeries ==
    \/ ProcessExit
    \/ MainSingleFile(SeriesGlossArgs, ReadableOutcomes)
    \/ MainDirectoryStart(SeriesListings)
    \/ ProcessDirectoryStep(ReadableOutcomes)
    \/ MainDirectoryFinish

SpecSeries == InitExtract /\ [][NextSeries]_vars

(***************************************************************************)
(* Label derivation as a specification of its own                          *)
(***************************************************************************)
ExtractIdle ==
    /\ dirFiles = <<>>
    /\ manifest = NoManifest
    /\ xPc = "off"
    /\ xMode = "none"
    /\ xVideos = <<>>
    /\ xResults = <<>>
    /\ xUseFfmpeg = TRUE
    /\ xExit = -1
    /\ xWrote = FALSE
    /\ xLast = NoCall
    /\ xDerived = {}

InitGloss ==
    /\ gFilename \in Filenames
    /\ gLabel = <<>>
    /\ gPc = "input"
    /\ ExtractIdle
    /\ UploadIdle
    /\ FramesIdle
    /\ PublishIdle

DeriveLabel ==
    /\ gPc = "input"
    /\ gLabel' = get_gloss_from_filename(gFilename)
    /\ gPc' = "derived"
    /\ UNCHANGED <<gFilename, extractVars, pubVars, uploadVars, frameVars>>

NextGloss == DeriveLabel

SpecGloss == InitGloss /\ [][NextGloss]_vars

(***************************************************************************)
(* Publication: storage and table collaborators                            *)
(***************************************************************************)
DEFAULT_FPS == 24
DEFAULT_BUCKET == "avatars"

PubLabels == {"HELLO", "WATER"}

\* upload_file, lines 105-125: True when the upload went through or the
\* storage layer answered "already exists"
upload_file(outcome) == outcome = "ok" \/ outcome = "exists"

\* what the storage layer may answer for each frame of `frames` uploaded
\* under `gloss`, out of `answers`: stored, rejected, or "already exists"
\* (object left as is)
UploadOutcomes(objs, gloss, frames, answers) ==
    {out \in [frames -> answers] :
        \A n \in frames : out[n] = "exists" => <<gloss, n>> \in DOMAIN objs}

StorageAnswers == {"ok", "rejected", "exists"}

\* upload_gloss_frames, lines 139-157: every *.webp of the directory goes to
\* <gloss>/<name>; the count is of the frames upload_file reported True for.
\* `src` maps the directory's frame names to the bytes of each file, `objs`
\* maps object paths to the bytes stored there; a stored frame overwrites the
\* object at its path (upsert), no object is ever removed
success_count(out) == Cardinality({n \in DOMAIN out : upload_file(out[n])})

upload_gloss_frames(objs, gloss, src, out) ==
    LET stored == {<<gloss, n>> : n \in {m \in DOMAIN out : out[m] = "ok"}}
    IN [objects |-> [k \in DOMAIN objs \cup stored |->
                        IF k \in stored THEN src[k[2]] ELSE objs[k]],
        count |-> success_count(out)]

\* update_database, lines 170-194: the row upserted on gloss_label; a
\* rejected upsert leaves the table as it was and returns False
update_database(tbl, gloss, frame_count, fps, accepted) ==
    IF accepted
    THEN [g \in DOMAIN tbl \cup {gloss} |->
            IF g = gloss
            THEN [frame_count |-> frame_count,
                  fps |-> fps,
                  storage_path |-> DEFAULT_BUCKET \o "/" \o gloss,
                  duration_ms |-> (frame_count * 1000) \div fps]
            ELSE tbl[g]]
    ELSE tbl

\* a guard that upserts whatever the upload count
UpsertAlways(uploaded) == uploaded >= 0

\* the guard `if uploaded > 0` in front of update_database (lines 224, 293, 345)
UpsertGuard(uploaded) == uploaded > 0

\* a client factory that checks the URL only
get_supabase_client_url_only(url, key) == IF ~url THEN "exit" ELSE "client"

\* get_supabase_client, lines 49-63: exit before create_client when either
\* credential is absent
get_supabase_client(url, key) ==
    IF ~url THEN "exit" ELSE IF ~key THEN "exit" ELSE "client"

\* an end of run that always reports success
FinishStatusAlwaysZero(results) == 0

\* main, lines 311-318 and 349-356: exit status from the results mapping
FinishStatus(results) == IF DOMAIN results # {} THEN 0 ELSE 1

(***************************************************************************)
(* Publication runs                                                        *)
(***************************************************************************)
\* the run's bookkeeping at the start of main
Begin(r, args, pc, mode, exit) ==
    /\ pPc' = [pPc EXCEPT ![r] = pc]
    /\ pMode' = [pMode EXCEPT ![r] = mode]
    /\ pArgs' = [pArgs EXCEPT ![r] = args]
    /\ pEnsure' = [pEnsure EXCEPT ![r] = "none"]
    /\ pPending' = [pPending EXCEPT ![r] = <<>>]
    /\ pResults' = [pResults EXCEPT ![r] = <<>>]
    /\ pLog' = [pLog EXCEPT ![r] = {}]
    /\ pCalls' = [pCalls EXCEPT ![r] = {}]
    /\ pExit' = [pExit EXCEPT ![r] = exit]

\* os.path.join(args.frames, "manifest.json") and a path given with --manifest
DefaultManifest == "frames/manifest.json"
GivenManifest == "other.json"

\* main, line 279: manifest_path = args.manifest or <frames>/manifest.json
manifest_path(args) ==
    IF args.manifest # "" THEN args.manifest ELSE DefaultManifest

\* a selection that looks for the manifest before the label
select_mode_manifest_first(args) ==
    IF manifest_path(args) \in args.files THEN "manifest"
    ELSE IF args.gloss # "" THEN "gloss"
    ELSE "scan"

\* main, lines 281, 300 and 320: if args.gloss / elif isfile(manifest_path) /
\* else
select_mode(args) ==
    IF args.gloss # "" THEN "gloss"
    ELSE IF manifest_path(args) \in args.files THEN "manifest"
    ELSE "scan"

\* what a run that got past the bucket reads next (lines 279-300): --gloss
\* and --manifest ("" when not given) and the manifest files that exist; the
\* directory listing is filled in by the scan
Args(glosses, manifests, files) ==
    [files : files, frames : {TRUE}, gloss : glosses, key : {TRUE},
     listing : {<<>>}, manifest : manifests, url : {TRUE}]

\* the command lines of the successive runs: --manifest never given
PubArgs == Args({""} \cup PubLabels, {""}, {{}, {DefaultManifest}})

\* overlapping runs are each given the same label
RaceArgs == Args({"HELLO"}, {""}, {{}})

\* every way of giving or not giving --gloss and --manifest, with either
\* manifest file present or absent
ModeArgs ==
    Args({"", "HELLO"}, {"", GivenManifest},
         {{}, {DefaultManifest}, {GivenManifest}, {DefaultManifest, GivenManifest}})

\* main, lines 264-272: the frames path and the credentials are checked
\* before the client exists
PMainStart(r) ==
    /\ pPc[r] = "idle"
    /\ \E present \in [frames : BOOLEAN, key : BOOLEAN, url : BOOLEAN] :
        LET args == [NoArgs EXCEPT !.frames = present.frames, !.url = present.url,
                                   !.key = present.key]
        IN
        IF ~args.frames
        THEN Begin(r, args, "done", "missing_frames", 1)
        ELSE IF get_supabase_client(args.url, args.key) = "exit"
             THEN Begin(r, args, "done", "missing_credentials", 1)
             ELSE Begin(r, args, "connected", "none", -1)
    /\ UNCHANGED <<remoteVars, glossVars, extractVars, uploadVars, frameVars>>

\* the process has exited: the run's memory is gone, the project's bucket and
\* table stay
PProcessExit(r) ==
    /\ pPc[r] = "done"
    /\ Begin(r, NoArgs, "idle", "none", -1)
    /\ UNCHANGED <<remoteVars, glossVars, extractVars, uploadVars, frameVars>>

\* the run ends with sys.exit(status)
Exit(r, mode, status) ==
    /\ pPc' = [pPc EXCEPT ![r] = "done"]
    /\ pMode' = [pMode EXCEPT ![r] = mode]
    /\ pExit' = [pExit EXCEPT ![r] = status]

\* ensure_bucket_exists, lines 72-75 and 86-93: list_buckets, then either the
\* bucket is there or create_bucket is next
PListBuckets(r) ==
    /\ pPc[r] = "connected"
    /\ pCalls' = [pCalls EXCEPT ![r] = @ \cup {"list_buckets"}]
    /\ \E listed \in BOOLEAN :
        IF ~listed
        THEN /\ pEnsure' = [pEnsure EXCEPT ![r] = "error"]
             /\ Exit(r, "bucket_failed", 1)
        ELSE IF bucket
             THEN /\ pEnsure' = [pEnsure EXCEPT ![r] = "exists"]
                  /\ pPc' = [pPc EXCEPT ![r] = "ensured"]
                  /\ UNCHANGED <<pMode, pExit>>
             ELSE /\ pEnsure' = [pEnsure EXCEPT ![r] = "absent"]
                  /\ pPc' = [pPc EXCEPT ![r] = "creating"]
                  /\ UNCHANGED <<pMode, pExit>>
    /\ UNCHANGED <<remoteVars, pArgs, pPending, pResults, pLog, glossVars, extractVars, uploadVars, frameVars>>

\* ensure_bucket_exists, lines 76-93, and main, lines 275-276: create_bucket
\* raises when the bucket exists by now or the service refuses; any exception
\* makes ensure_bucket_exists return False and main exit
PCreateBucket(r) ==
    /\ pPc[r] = "creating"
    /\ pCalls' = [pCalls EXCEPT ![r] = @ \cup {"create_bucket"}]
    /\ IF bucket
       THEN /\ pEnsure' = [pEnsure EXCEPT ![r] = "duplicate"]
            /\ Exit(r, "bucket_failed", 1)
            /\ UNCHANGED bucket
       ELSE \E accepted \in BOOLEAN :
            IF accepted
            THEN /\ bucket' = TRUE
                 /\ pEnsure' = [pEnsure EXCEPT ![r] = "created"]
                 /\ pPc' = [pPc EXCEPT ![r] = "ensured"]
                 /\ UNCHANGED <<pMode, pExit>>
            ELSE /\ pEnsure' = [pEnsure EXCEPT ![r] = "error"]
                 /\ Exit(r, "bucket_failed", 1)
                 /\ UNCHANGED bucket
    /\ UNCHANGED <<objects, table, pArgs, pPending, pResults, pLog, glossVars, extractVars, uploadVars, frameVars>>

\* the frame files a directory may hold when it is listed: an extraction
\* numbers its frames from 1 without gaps
FrameSets == {{FrameName(n) : n \in 1..k} : k \in 0..MaxSrcFrames}

\* the frame files of a directory with their bytes, each file's bytes being
\* one of `contents`
FrameFiles(contents) == UNION {[fs -> contents] : fs \in FrameSets}

\* the publication runs read frames written by one extraction
PubContents == {"v1"}

PubFrameFiles == FrameFiles(PubContents)

\* with frames of one extraction, "already exists" leaves the bucket and the
\* count exactly as a stored upload does, so the runs draw from the other two
PubAnswers == {"ok", "rejected"}

\* the table service is asked only behind the guard
UpsertAnswers(uploaded) == IF UpsertGuard(uploaded) THEN BOOLEAN ELSE {FALSE}

\* one label's publication: upload_gloss_frames, then update_database behind
\* the guard; the log keeps what the run did for the label
PublishGloss(r, gloss, fps, src, out, accepted) ==
    LET up == upload_gloss_frames(objects, gloss, src, out)
        upsert == IF ~UpsertGuard(up.count) THEN "none"
                  ELSE IF accepted THEN "ok" ELSE "rejected"
    IN /\ objects' = up.objects
       /\ table' = IF upsert = "none" THEN table
                   ELSE update_database(table, gloss, up.count, fps, accepted)
       /\ pLog' = [pLog EXCEPT ![r] = @ \cup
                     {[gloss |-> gloss, found |-> TRUE, uploaded |-> up.count,
                       upsert |-> upsert]}]
       /\ pCalls' = [pCalls EXCEPT ![r] = @ \cup
                        (IF DOMAIN out # {} THEN {"upload"} ELSE {})
                        \cup (IF upsert # "none" THEN {"upsert"} ELSE {})]

\* the value upload_gloss_frames returns to its caller
Uploaded(gloss, src, out) == success_count(out)

\* main, lines 281-298: a label was given
PUploadSingle(r, argSet) ==
    /\ pPc[r] = "ensured"
    /\ \E args \in argSet, src \in PubFrameFiles :
        /\ select_mode(args) = "gloss"
        /\ pArgs' = [pArgs EXCEPT ![r] = args]
        /\ LET gloss == args.gloss
           IN \E out \in UploadOutcomes(objects, gloss, DOMAIN src, PubAnswers) :
              \E accepted \in UpsertAnswers(Uploaded(gloss, src, out)) :
                /\ PublishGloss(r, gloss, DEFAULT_FPS, src, out, accepted)
                /\ Exit(r, "gloss", IF Uploaded(gloss, src, out) > 0 THEN 0 ELSE 1)
                /\ pResults' = [pResults EXCEPT ![r] =
                                  IF Uploaded(gloss, src, out) > 0
                                  THEN [g \in {gloss} |-> Uploaded(gloss, src, out)]
                                  ELSE <<>>]
    /\ UNCHANGED <<bucket, pEnsure, pPending, glossVars, extractVars, uploadVars, frameVars>>

\* the label orders a manifest's "glosses" object may list
ManifestGlosses ==
    {l \in UNION {[1..n -> PubLabels] : n \in 0..Cardinality(PubLabels)} :
        \A i, j \in 1..Len(l) : i # j => l[i] # l[j]}

\* main, lines 300-309 and process_manifest, lines 206-212: no label given and
\* the manifest path is a file
PManifestStart(r, argSet) ==
    /\ pPc[r] = "ensured"
    /\ \E args \in argSet, glosses \in ManifestGlosses :
        /\ select_mode(args) = "manifest"
        /\ pArgs' = [pArgs EXCEPT ![r] = args]
        /\ pPending' = [pPending EXCEPT ![r] = glosses]
    /\ pPc' = [pPc EXCEPT ![r] = "manifest"]
    /\ pMode' = [pMode EXCEPT ![r] = "manifest"]
    /\ UNCHANGED <<remoteVars, pEnsure, pResults, pLog, pCalls, pExit,
                   glossVars, extractVars, uploadVars, frameVars>>

\* results[gloss] = uploaded, behind the guard
Record(r, gloss, uploaded) ==
    pResults' = [pResults EXCEPT ![r] =
                    IF uploaded > 0
                    THEN [g \in DOMAIN @ \cup {gloss} |-> IF g = gloss THEN uploaded ELSE @[g]]
                    ELSE @]

\* process_manifest, lines 214-228: one iteration of the loop over glosses
PManifestStep(r) ==
    /\ pPc[r] = "manifest"
    /\ pPending[r] # <<>>
    /\ LET gloss == Head(pPending[r])
       IN \E isdir \in BOOLEAN :
            IF ~isdir
            THEN /\ pLog' = [pLog EXCEPT ![r] = @ \cup
                               {[gloss |-> gloss, found |-> FALSE, uploaded |-> 0,
                                 upsert |-> "none"]}]
                 /\ UNCHANGED <<objects, table, pResults, pCalls>>
            ELSE \E src \in PubFrameFiles :
                 \E out \in UploadOutcomes(objects, gloss, DOMAIN src, PubAnswers) :
                 \E accepted \in UpsertAnswers(Uploaded(gloss, src, out)) :
                    /\ PublishGloss(r, gloss, DEFAULT_FPS, src, out, accepted)
                    /\ Record(r, gloss, Uploaded(gloss, src, out))
    /\ pPending' = [pPending EXCEPT ![r] = LoopRest(@)]
    /\ UNCHANGED <<bucket, pPc, pMode, pArgs, pEnsure, pExit, glossVars, extractVars, uploadVars, frameVars>>

\* process_manifest returns; main, lines 311-318
PManifestFinish(r) ==
    /\ pPc[r] = "manifest"
    /\ pPending[r] = <<>>
    /\ Exit(r, "manifest", FinishStatus(pResults[r]))
    /\ UNCHANGED <<remoteVars, pArgs, pEnsure, pPending, pResults, pLog, pCalls,
                   glossVars, extractVars, uploadVars, frameVars>>

\* entries of the frames directory: label directories in either case, a
\* hidden directory and a plain file
dir_hello == [is_dir |-> TRUE, name |-> <<"h","e","l","l","o">>]
dir_HELLO == [is_dir |-> TRUE, name |-> <<"H","E","L","L","O">>]
dir_water == [is_dir |-> TRUE, name |-> <<"w","a","t","e","r">>]
dir_hidden == [is_dir |-> TRUE, name |-> <<".","t","m","p">>]
file_readme == [is_dir |-> FALSE, name |-> <<"R","E","A","D","M","E">>]

DirEntries == {dir_hello, dir_HELLO, dir_water, dir_hidden, file_readme}

DirListings ==
    {l \in UNION {[1..n -> DirEntries] : n \in 0..MaxVideos} :
        \A i, j \in 1..Len(l) : i # j => l[i] # l[j]}

\* listings of label directories only
LabelDirListings ==
    {l \in DirListings : \A i \in 1..Len(l) : l[i] \in {dir_hello, dir_HELLO, dir_water}}

\* the comprehension of lines 324-327: directories whose name has no leading dot
RECURSIVE gloss_dirs(_)
gloss_dirs(listing) ==
    IF listing = <<>> THEN <<>>
    ELSE LET d == Head(listing)
         IN IF d.is_dir /\ ~(Len(d.name) > 0 /\ d.name[1] = ".")
            THEN <<d.name>> \o gloss_dirs(Tail(listing))
            ELSE gloss_dirs(Tail(listing))

\* gloss_dir.name.upper() of every directory entry, computed once
ScanGloss == [d \in {e.name : e \in DirEntries} |-> Str(Upper(d))]

\* main, lines 320-333: no label, no manifest file: the frames directory is
\* scanned; without label directories the run exits
PScanStart(r, argSet, listings) ==
    /\ pPc[r] = "ensured"
    /\ \E args \in argSet, listing \in listings :
        /\ select_mode(args) = "scan"
        /\ pArgs' = [pArgs EXCEPT ![r] = [args EXCEPT !.listing = listing]]
        /\ IF gloss_dirs(listing) = <<>>
           THEN /\ Exit(r, "scan", 1)
                /\ UNCHANGED pPending
           ELSE /\ pPending' = [pPending EXCEPT ![r] = gloss_dirs(listing)]
                /\ pPc' = [pPc EXCEPT ![r] = "scan"]
                /\ pMode' = [pMode EXCEPT ![r] = "scan"]
                /\ UNCHANGED pExit
    /\ UNCHANGED <<remoteVars, pEnsure, pResults, pLog, pCalls, glossVars, extractVars, uploadVars, frameVars>>

\* main, lines 335-347: one iteration of the loop over label directories
PScanStep(r) ==
    /\ pPc[r] = "scan"
    /\ pPending[r] # <<>>
    /\ LET gloss == ScanGloss[Head(pPending[r])]
       IN \E src \in PubFrameFiles :
          \E out \in UploadOutcomes(objects, gloss, DOMAIN src, PubAnswers) :
          \E accepted \in UpsertAnswers(Uploaded(gloss, src, out)) :
            /\ PublishGloss(r, gloss, DEFAULT_FPS, src, out, accepted)
            /\ Record(r, gloss, Uploaded(gloss, src, out))
    /\ pPending' = [pPending EXCEPT ![r] = LoopRest(@)]
    /\ UNCHANGED <<bucket, pPc, pMode, pArgs, pEnsure, pExit, glossVars, extractVars, uploadVars, frameVars>>

\* main, lines 349-356
PScanFinish(r) ==
    /\ pPc[r] = "scan"
    /\ pPending[r] = <<>>
    /\ Exit(r, "scan", FinishStatus(pResults[r]))
    /\ UNCHANGED <<remoteVars, pArgs, pEnsure, pPending, pResults, pLog, pCalls,
                   glossVars, extractVars, uploadVars, frameVars>>

InitPublish ==
    /\ GlossIdle
    /\ UploadIdle
    /\ FramesIdle
    /\ ExtractIdle
    /\ PublishIdle

\* one publication process at a time, in any of the three modes
NextPublish ==
    \/ PProcessExit("run1")
    \/ PMainStart("run1")
    \/ PListBuckets("run1")
    \/ PCreateBucket("run1")
    \/ PUploadSingle("run1", PubArgs)
    \/ PManifestStart("run1", PubArgs)
    \/ PManifestStep("run1")
    \/ PManifestFinish("run1")
    \/ PScanStart("run1", PubArgs, LabelDirListings)
    \/ PScanStep("run1")
    \/ PScanFinish("run1")

SpecPublish == InitPublish /\ [][NextPublish]_vars

\* two publication processes overlapping, each given its label explicitly
NextRace ==
    \E r \in AllRuns :
        \/ PProcessExit(r)
        \/ PMainStart(r)
        \/ PListBuckets(r)
        \/ PCreateBucket(r)
        \/ PUploadSingle(r, RaceArgs)

SpecRace == InitPublish /\ [][NextRace]_vars

\* one publication run against a fresh service, over every command line and
\* every listing of the frames directory
NextMode ==
    \/ pPc["run1"] = "idle" /\ PMainStart("run1")
    \/ PListBuckets("run1")
    \/ PCreateBucket("run1")
    \/ PUploadSingle("run1", ModeArgs)
    \/ PManifestStart("run1", ModeArgs)
    \/ PManifestStep("run1")
    \/ PManifestFinish("run1")
    \/ PScanStart("run1", ModeArgs, DirListings)
    \/ PScanStep("run1")
    \/ PScanFinish("run1")

SpecMode == InitPublish /\ [][NextMode]_vars

\* either script run once as a batch: one directory-scan extraction into a
\* fresh output directory, or one publication run against a fresh service
InitBatch == InitExtract \/ InitPublish

NextBatch ==
    \/ MainDirectoryStart(Listings)
    \/ ProcessDirectoryStep(Outcomes)
    \/ MainDirectoryFinish
    \/ NextMode

SpecBatch == InitBatch /\ [][NextBatch]_vars

(***************************************************************************)
(* extract_frames called once on a source file and an output directory     *)
(***************************************************************************)
\* what the output directory may hold before the call
DirContents == SUBSET ({FrameName(n) : n \in 1..MaxSrcFrames} \cup {FRAME_FORMAT})

InitFrames ==
    /\ GlossIdle
    /\ ExtractIdle
    /\ PublishOff
    /\ UploadIdle
    /\ fPc = "input"
    /\ fIn \in [files : DirContents, use_ffmpeg : BOOLEAN, o : Outcomes]
    /\ fOut = NoFrames

CallExtractFrames ==
    /\ fPc = "input"
    /\ fOut' = extract_frames(fIn.files, fIn.use_ffmpeg, fIn.o)
    /\ fPc' = "returned"
    /\ UNCHANGED <<fIn, glossVars, extractVars, pubVars, uploadVars>>

NextFrames == CallExtractFrames

SpecFrames == InitFrames /\ [][NextFrames]_vars

(***************************************************************************)
(* upload_gloss_frames called twice in succession on one frames directory  *)
(***************************************************************************)
\* the bytes a frame file may hold
Contents == {"v1", "v2"}

UploadLabel == "HELLO"

InitUpload ==
    /\ GlossIdle
    /\ ExtractIdle
    /\ PublishIdle
    /\ FramesIdle
    /\ uPc = "start"
    /\ uSrc = <<>>
    /\ uOuts = <<>>
    /\ uCounts = <<>>

\* the frames directory of the label as the next two calls find it (line 140)
UListFrames ==
    /\ uPc \in {"start", "twice"}
    /\ \E src \in FrameFiles(Contents) : uSrc' = src
    /\ uPc' = "listed"
    /\ uOuts' = <<>>
    /\ uCounts' = <<>>
    /\ UNCHANGED <<glossVars, extractVars, pubVars, frameVars>>

\* one call of upload_gloss_frames on that directory
UUpload ==
    /\ uPc \in {"listed", "once"}
    /\ \E out \in UploadOutcomes(objects, UploadLabel, DOMAIN uSrc, StorageAnswers) :
        LET up == upload_gloss_frames(objects, UploadLabel, uSrc, out)
        IN /\ objects' = up.objects
           /\ uOuts' = Append(uOuts, out)
           /\ uCounts' = Append(uCounts, up.count)
    /\ uPc' = IF uPc = "listed" THEN "once" ELSE "twice"
    /\ UNCHANGED <<uSrc, bucket, table, pPc, pMode, pArgs, pEnsure, pPending,
                   pResults, pLog, pCalls, pExit, glossVars, extractVars, frameVars>>

NextUpload == UListFrames \/ UUpload

SpecUpload == InitUpload /\ [][NextUpload]_vars

(***************************************************************************)
(* Properties of label derivation (SpecGloss)                              *)
(***************************************************************************)
\* The reference derivation, stated on positions: the stem is cut at every
\* "_"; a segment survives unless it is a non-empty run of digits; survivors
\* are written out in order with "_" between them, in upper case.
RefCuts(stem) == {0} \cup {i \in 1..Len(stem) : stem[i] = "_"} \cup {Len(stem) + 1}

RefNextCut(stem, a) ==
    CHOOSE b \in RefCuts(stem) : b > a /\ \A c \in RefCuts(stem) : c > a => b <= c

RefSegment(stem, a) == SubSeq(stem, a + 1, RefNextCut(stem, a) - 1)

RefNumeric(x) == x # <<>> /\ {x[i] : i \in 1..Len(x)} \subseteq Digits

RefKept(stem) == {a \in RefCuts(stem) \ {Len(stem) + 1} : ~RefNumeric(RefSegment(stem, a))}

RECURSIVE RefWrite(_, _)
RefWrite(stem, kept) ==
    IF kept = {} THEN <<>>
    ELSE LET a == CHOOSE x \in kept : \A y \in kept : x <= y
             seg == [i \in 1..Len(RefSegment(stem, a)) |-> UpperChar(RefSegment(stem, a)[i])]
         IN IF kept = {a} THEN seg ELSE seg \o <<"_">> \o RefWrite(stem, kept \ {a})

RefGloss(filename) == RefWrite(Stem(filename), RefKept(Stem(filename)))

\* C7: the derived label equals the reference derivation (strip the
\* extension, split on "_", drop the segments made only of digits, rejoin
\* with "_", uppercase) for every filename, and is "COFFEE" for
\* "COFFEE_001.mp4", "THANK_YOU" for "THANK_YOU_2.mp4" and "" for "1.mp4".
C7_GlossMatchesReference ==
    gPc = "derived" =>
        /\ gLabel = RefGloss(gFilename)
        /\ gFilename = COFFEE_001_mp4 => Str(gLabel) = "COFFEE"
        /\ gFilename = THANK_YOU_2_mp4 => Str(gLabel) = "THANK_YOU"
        /\ gFilename = One_mp4 => Str(gLabel) = ""

\* a filename with a numeric segment in front of a kept one has been derived
C7_Witness ==
    /\ gPc = "derived"
    /\ gFilename = <<"7", "_", "a">>
    /\ gLabel = <<"A">>

(***************************************************************************)
(* Properties of extraction runs (SpecExtract)                             *)
(***************************************************************************)
\* C2: whenever a run has written manifest.json, every label's recorded
\* frame_count equals the number of frame files in that label's directory.
C2_ManifestCountMatchesDisk ==
    xWrote =>
        \A g \in DOMAIN manifest.glosses :
            manifest.glosses[g].frame_count = Cardinality(FilesOf(dirFiles, g))

\* C3: the manifest written from a results mapping has exactly the labels
\* whose count is greater than 0, each with that count.
C3_ManifestLabelsAreNonzeroResults ==
    xWrote =>
        /\ DOMAIN manifest.glosses = {g \in DOMAIN xResults : xResults[g] > 0}
        /\ \A g \in DOMAIN manifest.glosses : manifest.glosses[g].frame_count = xResults[g]

\* a manifest was written from results holding a failed and a successful label
C3_Witness ==
    /\ xWrote
    /\ \E g \in DOMAIN xResults : xResults[g] = 0
    /\ \E g \in DOMAIN xResults : xResults[g] > 0

\* C4: a run that extracted zero frames in total has exited nonzero.
C4_NoFramesExitsNonzero ==
    (xPc = "done" /\ SumValues(xResults) = 0) => xExit # 0

\* C8: once a source file's label has been derived as the empty string, no
\* frames lie in the output tree under that label and the manifest has no
\* entry with the empty label.
C8_EmptyLabelRejected ==
    "" \in xDerived =>
        /\ FilesOf(dirFiles, "") = {}
        /\ "" \notin DOMAIN manifest.glosses

\* C10: after extract_frames returned N > 0 for a label directory, the frame
\* files in it are exactly 0001.webp .. N.
C10_FramesContiguous ==
    xLast.count > 0 =>
        FilesOf(dirFiles, xLast.dir) = {FormatFrame(i) : i \in 1..xLast.count}

(***************************************************************************)
(* Properties of publication runs (SpecPublish, SpecRace)                  *)
(***************************************************************************)
\* C1: in every mode, a label whose upload count is 0 gets no table upsert
\* call in that run.
C1_NoUpsertWithoutUpload ==
    \A r \in AllRuns : \A e \in pLog[r] : e.uploaded = 0 => e.upsert = "none"

\* a label's frames were all rejected by the storage layer
C1_Witness ==
    \E r \in AllRuns : \E e \in pLog[r] :
        e.found /\ e.uploaded = 0 /\ "upload" \in pCalls[r]

\* C5: a run that ended in one of the three modes without any label having an
\* uploaded frame has exited nonzero.
C5_NothingUploadedExitsNonzero ==
    \A r \in AllRuns :
        (/\ pPc[r] = "done"
         /\ pMode[r] \in {"gloss", "manifest", "scan"}
         /\ \A e \in pLog[r] : e.uploaded = 0) => pExit[r] # 0

\* a manifest run ended whose labels all lacked their frames directory
C5_Witness ==
    \E r \in AllRuns :
        /\ pPc[r] = "done"
        /\ pMode[r] = "manifest"
        /\ pLog[r] # {}
        /\ \A e \in pLog[r] : ~e.found

\* C6: a run whose create_bucket call failed because the bucket exists by
\* now does not end at the bucket step: it goes on to upload.
C6_DuplicateBucketTolerated ==
    \A r \in AllRuns :
        pEnsure[r] = "duplicate" => ~(pPc[r] = "done" /\ pMode[r] = "bucket_failed")

\* C9: a run whose frames path is missing or that lacks a credential has
\* exited nonzero without any storage or table call.
C9_ConfigErrorBeforeAnyCall ==
    \A r \in AllRuns :
        (~pArgs[r].frames \/ ~pArgs[r].url \/ ~pArgs[r].key) =>
            /\ pPc[r] = "done"
            /\ pExit[r] = 1
            /\ pCalls[r] = {}

\* a run given the URL but not the key has ended
C9_Witness ==
    \E r \in AllRuns :
        /\ pPc[r] = "done"
        /\ pArgs[r].frames /\ pArgs[r].url /\ ~pArgs[r].key
        /\ pMode[r] = "missing_credentials"

(***************************************************************************)
(* Properties of repeated upload (SpecUpload)                              *)
(***************************************************************************)
\* the objects stored under <gloss>/, by frame name
ObjectsUnder(objs, gloss) ==
    [n \in {k[2] : k \in {j \in DOMAIN objs : j[1] = gloss}} |-> objs[<<gloss, n>>]]

NoneRejected ==
    \A i \in 1..Len(uOuts) : \A n \in DOMAIN uOuts[i] : uOuts[i][n] # "rejected"

\* C11: after upload_gloss_frames ran twice in succession on one label's
\* non-empty frame set (the storage layer answering "stored" or "already
\* exists" for every frame), both calls reported every frame as a success and
\* the objects under <label>/ are exactly the source frames, name for name
\* and byte for byte.
C11_TwiceUploadedIsSourceFrames ==
    (uPc = "twice" /\ DOMAIN uSrc # {} /\ NoneRejected) =>
        /\ uCounts[1] = Cardinality(DOMAIN uSrc)
        /\ uCounts[2] = uCounts[1]
        /\ ObjectsUnder(objects, UploadLabel) = uSrc

(***************************************************************************)
(* Properties of the batch loops (SpecBatch)                               *)
(***************************************************************************)
\* the label's iteration ended in a failure: its directory was missing, a
\* frame upload was rejected, or the table upsert was rejected
FailedEntry(e) ==
    \/ ~e.found
    \/ e.upsert = "rejected"
    \/ e.upsert = "none"

ExtractLoopContinues ==
    /\ (xPc = "scan" /\ xVideos # <<>>) =>
            /\ xPc' = "scan"
            /\ xVideos' = Tail(xVideos)
            /\ xLast'.dir = GlossOf[Head(xVideos)]
            /\ GlossOf[Head(xVideos)] \in DOMAIN xResults'
    /\ (xPc = "scan" /\ xPc' # "scan") => xVideos = <<>>

PublishLoopContinues(r) ==
    /\ (pPc[r] \in {"manifest", "scan"} /\ pPending[r] # <<>>) =>
            /\ pPc'[r] = pPc[r]
            /\ pPending'[r] = Tail(pPending[r])
            /\ \E e \in pLog'[r] :
                    e.gloss = IF pPc[r] = "scan" THEN ScanGloss[Head(pPending[r])]
                              ELSE Head(pPending[r])
    /\ (pPc[r] \in {"manifest", "scan"} /\ pPc'[r] # pPc[r]) => pPending[r] = <<>>

\* C12: in directory-scan extraction and in manifest-driven and directory-scan
\* publication, every step taken while labels remain processes the next label
\* and leaves the run in its loop with the rest of the labels, whatever
\* happened to that label (transcoder failure, rejected upload, rejected
\* upsert, missing directory); the loop is left only with no label remaining.
C12_FailureNeverAborts ==
    [][ExtractLoopContinues /\ \A r \in AllRuns : PublishLoopContinues(r)]_vars

\* a label of a manifest-driven run failed and the run is still in its loop
\* with a label to go
C12_Witness ==
    /\ pPc["run1"] = "manifest"
    /\ pPending["run1"] # <<>>
    /\ \E e \in pLog["run1"] : FailedEntry(e)

(***************************************************************************)
(* Properties of the publication results (SpecPublish)                     *)
(***************************************************************************)
\* every upsert the run attempted for the label was rejected
UpsertRejected(r, gloss) ==
    /\ \E e \in pLog[r] : e.gloss = gloss /\ e.upsert = "rejected"
    /\ \A e \in pLog[r] : e.gloss = gloss => e.upsert # "ok"

\* C13: a label whose table upsert was rejected is not among the run's
\* successful-label results (the mapping behind "Uploaded N glosses"), and a
\* finished run whose upserts were all rejected does not exit with status 0.
C13_RejectedUpsertIsFailure ==
    \A r \in AllRuns :
        /\ \A gloss \in PubLabels :
                UpsertRejected(r, gloss) => gloss \notin DOMAIN pResults[r]
        /\ ((pPc[r] = "done") /\ (\E e \in pLog[r] : e.upsert = "rejected")
                /\ (\A e \in pLog[r] : e.upsert # "ok")) => pExit[r] # 0

(***************************************************************************)
(* Properties of mode selection (SpecMode)                                 *)
(***************************************************************************)
\* the manifest path of the command line, --manifest or the default, names
\* an existing file
ManifestIsFile(a) ==
    \/ a.manifest # "" /\ a.manifest \in a.files
    \/ a.manifest = "" /\ DefaultManifest \in a.files

\* names of the immediate subdirectories with no leading dot, in listing order
NonHiddenDirs(listing) ==
    LET keep(e) == e.is_dir /\ (e.name = <<>> \/ Head(e.name) # ".")
        kept == SelectSeq(listing, keep)
    IN [i \in 1..Len(kept) |-> kept[i].name]

\* C14: a publication run is in exactly one mode, chosen by priority: the
\* single-label upload whenever a label is given, even with a manifest file
\* present; otherwise the manifest-driven upload whenever the manifest path
\* (--manifest or <frames>/manifest.json) is an existing file; otherwise the
\* directory scan, which goes through the immediate non-hidden subdirectories
\* and uploads each under its uppercased name.
C14_ModeByPriority ==
    \A r \in AllRuns :
        pMode[r] \in {"gloss", "manifest", "scan"} =>
            /\ pArgs[r].gloss # "" => pMode[r] = "gloss"
            /\ (pArgs[r].gloss = "" /\ ManifestIsFile(pArgs[r])) => pMode[r] = "manifest"
            /\ (pArgs[r].gloss = "" /\ ~ManifestIsFile(pArgs[r])) => pMode[r] = "scan"
            /\ pMode[r] = "scan" =>
                    LET dirs == NonHiddenDirs(pArgs[r].listing)
                    IN \E k \in 0..Len(dirs) :
                        /\ pPending[r] = SubSeq(dirs, k + 1, Len(dirs))
                        /\ {e.gloss : e \in pLog[r]} = {ScanGloss[dirs[i]] : i \in 1..k}
                        /\ \A o \in DOMAIN objects :
                                o[1] \in {ScanGloss[dirs[i]] : i \in 1..k}

\* a label was given while the manifest file exists, and the run uploaded
\* that label alone
C14_Witness ==
    /\ pMode["run1"] = "gloss"
    /\ pArgs["run1"].gloss = "HELLO"
    /\ DefaultManifest \in pArgs["run1"].files
    /\ pPc["run1"] = "done"
    /\ pExit["run1"] = 0

(***************************************************************************)
(* Properties of the backend fallback (SpecFrames)                         *)
(***************************************************************************)
\* the transcoder is installed and decodes the source
FfmpegReads(o) == o.ff = "ok"

\* the frame reader opens the source and reads at least one frame from it
OpencvReads(o) == o.opened /\ o.total > 0

\* C15 as stated: whichever value use_ffmpeg has, extract_frames returns a
\* nonzero count whenever one of the two backends reads the source, and the
\* other backend is tried exactly when the first one is unavailable or
\* yields zero frames.
C15_ReadableByEitherSucceeds ==
    fPc = "returned" =>
        LET firstReads == IF fIn.use_ffmpeg THEN FfmpegReads(fIn.o)
                          ELSE OpencvReads(fIn.o)
        IN /\ (FfmpegReads(fIn.o) \/ OpencvReads(fIn.o)) => fOut.count > 0
           /\ Len(fOut.calls) = 2 <=> ~firstReads

\* C15 amended: with use_ffmpeg set, extract_frames returns a nonzero count
\* whenever one of the two backends reads the source, and OpenCV is tried
\* exactly when ffmpeg is unavailable or yields zero frames; with use_ffmpeg
\* clear, OpenCV alone is tried and the count is nonzero exactly when OpenCV
\* reads the source.
C15_FallbackOnlyFromFfmpeg ==
    fPc = "returned" =>
        IF fIn.use_ffmpeg
        THEN /\ (FfmpegReads(fIn.o) \/ OpencvReads(fIn.o)) => fOut.count > 0
             /\ fOut.calls = IF FfmpegReads(fIn.o) THEN <<"ffmpeg">>
                             ELSE <<"ffmpeg", "opencv">>
        ELSE /\ fOut.calls = <<"opencv">>
             /\ fOut.count > 0 <=> OpencvReads(fIn.o)

\* ffmpeg failed on a source OpenCV reads, and the fallback returned frames
C15_Witness ==
    /\ fPc = "returned"
    /\ fIn.use_ffmpeg
    /\ ~FfmpegReads(fIn.o)
    /\ OpencvReads(fIn.o)
    /\ fOut.calls = <<"ffmpeg", "opencv">>
    /\ fOut.count > 0

(***************************************************************************)
(* Properties of colliding labels (SpecExtract)                            *)
(***************************************************************************)
\* C16: when a directory scan has ended and the file it processed last
\* derived a label that an earlier file of the same scan had derived, the
\* label's entry in the results mapping and in the manifest is the frame
\* count of that last file, and the label's directory holds only the frames
\* written for that last file.
C16_LastProcessedWins ==
    (xPc = "done" /\ xMode = "dir" /\ xLast.again /\ xLast.count > 0) =>
        /\ xLast.dir \in DOMAIN xResults
        /\ xResults[xLast.dir] = xLast.count
        /\ xLast.dir \in DOMAIN manifest.glosses
        /\ manifest.glosses[xLast.dir].frame_count = xLast.count
        /\ FilesOf(dirFiles, xLast.dir) = xLast.written

(***************************************************************************)
(* Properties of the table against the bucket (SpecPublish)                *)
(***************************************************************************)
\* every upsert the latest run attempted for the label went through, so the
\* label's most recent upsert succeeded
LatestUpsertSucceeded(r, gloss) ==
    /\ \E e \in pLog[r] : e.gloss = gloss /\ e.upsert = "ok"
    /\ \A e \in pLog[r] : e.gloss = gloss => e.upsert # "rejected"

\* C17: once a publication run has ended, every label whose most recent
\* table upsert succeeded has a row whose frame_count is the number of
\* objects stored under <label>/ in the bucket.
C17_RowCountsObjects ==
    \A gloss \in PubLabels :
        (pPc["run1"] = "done" /\ LatestUpsertSucceeded("run1", gloss)) =>
            /\ gloss \in DOMAIN table
            /\ table[gloss].frame_count =
                    Cardinality(DOMAIN ObjectsUnder(objects, gloss))

(***************************************************************************)
(* Properties of the manifest across runs (SpecSeries)                     *)
(***************************************************************************)
\* the label subdirectories of the output directory that hold a frame file
ExtractedLabels == {d \in DOMAIN dirFiles \ {""} : dirFiles[d] # {}}

\* C18: between extraction runs that all succeeded, every label subdirectory
\* of the output directory that holds at least one frame file has an entry
\* in the output directory's manifest.json, the entries a manifest-driven
\* publication goes through.
C18_ManifestListsEveryLabel ==
    xPc \in {"idle", "done"} =>
        \A d \in ExtractedLabels : manifest.exists /\ d \in DOMAIN manifest.glosses

====
